---- MODULE Spec2Model ----
(***************************************************************************)
(* Model of scripts/add-users.py: upload of users from a workbook to a     *)
(* Monday board.  One run of main() is one behaviour: the rows of the      *)
(* first worksheet are read one at a time by read_users_from_workbook,     *)
(* deduplicated, truncated to --limit, cut into batches by chunked() and   *)
(* every record is sent by create_user_item through                        *)
(* monday_request_with_retry.                                              *)
(*                                                                         *)
(* Strings whose leading and trailing blanks matter (workbook cells, ids,  *)
(* names) are sequences of characters; Python's None is the value None.    *)
(***************************************************************************)
EXTENDS Integers, Sequences, FiniteSets, TLC

\* ------------------------------------------------------------- bounds
\* Number of rows of the worksheet (header row included).
MaxRows == 3
\* Largest value of --retries.
MaxRetries == 2

\* ------------------------------------------------------ Python values
None == <<"<None>">>

Min(a, b) == IF a <= b THEN a ELSE b

Max(a, b) == IF a >= b THEN a ELSE b

\* lst[a:b] for 0 <= a, 0 <= b (Python slices clamp to the length).
Slice(lst, a, b) == SubSeq(lst, a + 1, Min(b, Len(lst)))

Whitespace == {" "}

RECURSIVE lstrip(_)
lstrip(s) == IF s # <<>> /\ Head(s) \in Whitespace THEN lstrip(Tail(s)) ELSE s

RECURSIVE rstrip(_)
rstrip(s) ==
    IF s # <<>> /\ s[Len(s)] \in Whitespace
    THEN rstrip(SubSeq(s, 1, Len(s) - 1))
    ELSE s

\* str.strip()
strip(s) == rstrip(lstrip(s))

\* str(v) of a cell value: a string is itself, None is the text "None".
str(v) == IF v = None THEN <<"N", "o", "n", "e">> ELSE v

RECURSIVE Pow2(_)
Pow2(n) == IF n <= 0 THEN 1 ELSE 2 * Pow2(n - 1)

\* ------------------------------------------------------------- inputs
\* The command line (argparse, lines 290-303).
LimitValues == 0..2

BatchValues == 1..2

DelayMsValues == {0, 1}

RetriesValues == (-1)..MaxRetries

\* <<min_delay_ms, max_delay_ms, jitter_ms>>
DelayConfigs == {<<3, 5, 1>>, <<1, 5, 0>>}

\* The values os.getenv / the command line give for a key: absent or set.
ApiKeyValues == {"", "key"}

BoardIdValues == {"", "board"}

UserIdColValues == {"", "id_col"}

\* The name column key may be absent, and nothing keeps it from being the id
\* column key.
UserNameColValues == {"", "name_col", "id_col"}

required_department == <<"M", " ", "D">>

\* Rows of the worksheet as iter_rows(values_only=True) gives them: tuples of
\* cell values, a blank cell being None.
RawRows ==
    { <<<<"A">>, <<"n">>, None, required_department>>,
      <<<<" ", "A", " ">>, <<" ">>, None, required_department>>,
      <<<<"B">>, None, None, required_department>>,
      <<None, <<"n", " ">>, None, required_department>>,
      <<<<"A">>, <<"n">>, None, <<" ", "M", " ", "D", " ">>>>,
      <<<<"A">>, <<"n">>, None, <<"X">>>>,
      <<<<"A">>, <<"n">>, None, None>>,
      <<<<" ">>, <<"n">>, None, required_department>>,
      <<<<"B">>, <<"n">>>>,
      <<>> }

\* What one requests.post can do: raise, or give a response.
P_DATA == [data |-> "item"]

P_EMPTY_ERRORS == [data |-> "item", errors |-> <<>>]

P_ERRORS == [errors |-> <<[message |-> "rate limit"]>>]

Payloads == {P_DATA, P_EMPTY_ERRORS, P_ERRORS}

TransportOutcomes ==
    {[kind |-> "raise"]}
    \cup {[kind |-> "response", status_code |-> s] : s \in {429, 500}}
    \cup {[kind |-> "response", status_code |-> 200, json |-> p] : p \in Payloads}

NoResponse == [kind |-> "none"]

\* ------------------------------------------------------------ the state
VARIABLES
    args,        \* parsed command line: limit, batch, delayMs, and dry and
                 \* no_header as to_bool gives them (lines 330-331)
    retry_cfg,   \* RetryConfig
    board_id,    \* args.board or os.getenv(...), "" when neither is set
    user_id_col,
    user_name_col,
    pc,          \* where main() is
    idx,         \* rows read so far by read_users_from_workbook
    row,         \* the row the generator's loop holds
    yielded,     \* history: the (id, name) pairs the extractor yielded
    sources,     \* history: the row each yielded pair was made from
    seen,
    users,
    total,
    created,
    b,           \* number of batches already taken from chunked(...)
    batch_users,
    k,           \* records of batch_users already handled
    ok,
    fail,
    first_err,
    attempt,
    last_err,
    resp,        \* outcome of the latest requests.post
    reqLog,      \* history of the current/latest request: posts and sleeps
    result,      \* what the create_user_item call that has just ended returned
                 \* or raised (main drops it: lines 385 and 396-399)
    calls,       \* history: number of requests.post calls of the run
    sleeps,      \* history: number of time.sleep calls of the run
    attempted,   \* history: records passed to create_user_item
    variables,   \* history: the variables of the latest create_user_item call
    outcomes,    \* history: how each create_user_item call ended, in order
    events,      \* prints, stderr reports and pacing sleeps of main, in order
    exit_code

vars ==
    <<args, retry_cfg, board_id, user_id_col, user_name_col, pc, idx, row,
      yielded, sources, seen, users, total, created, b, batch_users, k, ok,
      fail, first_err, attempt, last_err, resp, reqLog, result, calls, sleeps,
      attempted, variables, outcomes, events, exit_code>>

cfgVars == <<args, retry_cfg, board_id, user_id_col, user_name_col>>

extractVars == <<idx, row, yielded, sources, seen, users>>

batchVars == <<created, b, batch_users>>

requestVars == <<attempt, last_err, resp, reqLog, calls, sleeps>>

callVars == <<attempted, variables, outcomes>>

NoError == [type |-> "None"]

NoResult == [kind |-> "none"]

\* The generator's loop variable before the first row is read.
NoRow == << <<"<no row>">> >>

\* A dict with no key.
EmptyDict == <<>>

NoVariables == [boardId |-> "", itemName |-> <<>>, columnValues |-> [object |-> EmptyDict]]

Init ==
    /\ args \in [limit : LimitValues, batch : BatchValues,
                 delayMs : DelayMsValues, dry : BOOLEAN, no_header : BOOLEAN]
    /\ \E r \in RetriesValues, d \in DelayConfigs :
         retry_cfg = [retries |-> r, min_delay_ms |-> d[1],
                      max_delay_ms |-> d[2], jitter_ms |-> d[3]]
    /\ board_id \in BoardIdValues
    /\ user_id_col \in UserIdColValues
    /\ user_name_col \in UserNameColValues
    /\ pc = "validate"
    /\ idx = 0
    /\ row = NoRow
    /\ yielded = <<>>
    /\ sources = <<>>
    /\ seen = {}
    /\ users = <<>>
    /\ total = 0
    /\ created = 0
    /\ b = 0
    /\ batch_users = <<>>
    /\ k = 0
    /\ ok = 0
    /\ fail = 0
    /\ first_err = NoError
    /\ attempt = 0
    /\ last_err = NoError
    /\ resp = NoResponse
    /\ reqLog = <<>>
    /\ result = NoResult
    /\ calls = 0
    /\ sleeps = 0
    /\ attempted = <<>>
    /\ variables = NoVariables
    /\ outcomes = <<>>
    /\ events = <<>>
    /\ exit_code = -1                \* main() has not returned yet

\* ------------------------------------------- main, lines 307-338
\* An exception leaves main: the handler of lines 415-420 reports it and the
\* process exits with code 1.
Fatal(e) ==
    /\ events' = Append(events, [ev |-> "failed", error |-> e])
    /\ exit_code' = 1
    /\ pc' = "exit"

\* main goes on to its next step.
Goto(next) ==
    /\ pc' = next
    /\ UNCHANGED <<events, exit_code>>

\* validate_file (line 307): the file exists or FileNotFoundError.
ValidateFile ==
    /\ pc = "validate"
    /\ \E exists \in BOOLEAN :
         IF ~exists
         THEN Fatal([type |-> "FileNotFoundError", msg |-> <<"File not found">>])
         ELSE Goto("decrypt")
    /\ UNCHANGED <<cfgVars, extractVars, total, batchVars, k, ok, fail,
                   first_err, requestVars, result, callVars>>

\* What decrypt_workbook_if_needed can do (line 308): return at once without
\* a password, write the decrypted copy, or raise (msoffcrypto missing, wrong
\* password, unreadable or unwritable file).
DecryptOutcomes == {"no_password", "decrypted", "raise"}

DecryptWorkbook ==
    /\ pc = "decrypt"
    /\ \E o \in DecryptOutcomes :
         IF o = "raise"
         THEN Fatal([type |-> "Exception", msg |-> <<"decrypt_workbook_if_needed">>])
         ELSE Goto("require_env")
    /\ UNCHANGED <<cfgVars, extractVars, total, batchVars, k, ok, fail,
                   first_err, requestVars, result, callVars>>

\* require_env("MONDAY_API_KEY") (line 310).
RequireEnv ==
    /\ pc = "require_env"
    /\ \E val \in ApiKeyValues :
         IF val = ""
         THEN Fatal([type |-> "RuntimeError", msg |-> <<"Missing env", "MONDAY_API_KEY">>])
         ELSE Goto("config")
    /\ UNCHANGED <<cfgVars, extractVars, total, batchVars, k, ok, fail,
                   first_err, requestVars, result, callVars>>

\* Mutant: only the board id is checked.
CheckConfig_BoardOnly ==
    /\ pc = "config"
    /\ IF board_id = ""
       THEN Fatal([type |-> "RuntimeError", msg |-> <<"Board id is required">>])
       ELSE Goto("extract")
    /\ UNCHANGED <<cfgVars, extractVars, total, batchVars, k, ok, fail,
                   first_err, requestVars, result, callVars>>

\* Lines 321-328: the two required keys are checked, the board id first.
CheckConfig ==
    /\ pc = "config"
    /\ IF board_id = ""
       THEN Fatal([type |-> "RuntimeError", msg |-> <<"Board id is required">>])
       ELSE IF user_id_col = ""
       THEN Fatal([type |-> "RuntimeError", msg |-> <<"User id column id is required">>])
       ELSE Goto("extract")
    /\ UNCHANGED <<cfgVars, extractVars, total, batchVars, k, ok, fail,
                   first_err, requestVars, result, callVars>>

\* ------------------------------------------- read_users_from_workbook
\* row[i] if row and len(row) > i else ""
Cell(r, i) == IF r # <<>> /\ Len(r) > i THEN r[i + 1] ELSE <<>>

user_id_of(r) == strip(str(Cell(r, 0)))

user_name_of(r) == strip(str(Cell(r, 1)))

department_of(r) == strip(str(Cell(r, 3)))

\* Mutant: the department is not looked at.
Yields_IdOnly(r) == user_id_of(r) # <<>>

\* TRUE when the generator yields a pair for this row (lines 199-205).
Yields(r) == user_id_of(r) # <<>> /\ department_of(r) = required_department

\* The pair yielded for the row (line 205).
YieldOf(r) ==
    <<user_id_of(r), IF user_name_of(r) # <<>> THEN user_name_of(r) ELSE None>>

\* Mutant: the loop appends every yielded pair.
Dedupe_KeepAll(pair) ==
    /\ seen' = seen \cup {pair[1]}
    /\ users' = Append(users, pair)

\* The body of main's dedupe loop for one yielded pair (lines 347-350).
Dedupe(pair) ==
    IF pair[1] \in seen
    THEN UNCHANGED <<seen, users>>
    ELSE /\ seen' = seen \cup {pair[1]}
         /\ users' = Append(users, pair)

\* One iteration of the generator's loop over the rows, and, when it yields,
\* one iteration of main's loop over the generator.
ReadRow ==
    /\ pc = "extract"
    /\ idx < MaxRows
    /\ \E r \in RawRows :
         /\ idx' = idx + 1
         /\ row' = r
         /\ IF (~args.no_header) /\ idx = 0
            THEN UNCHANGED <<yielded, sources, seen, users>>
            ELSE IF ~Yields(r)
            THEN UNCHANGED <<yielded, sources, seen, users>>
            ELSE /\ yielded' = Append(yielded, YieldOf(r))
                 /\ sources' = Append(sources, r)
                 /\ Dedupe(YieldOf(r))
    /\ UNCHANGED <<cfgVars, pc, total, batchVars, k, ok, fail, first_err,
                   requestVars, result, callVars, events, exit_code>>

\* ------------------------------------------------- main, lines 352-373
\* Mutant: --limit is ignored.
TotalOf_NoLimit(us, limit) == Len(us)

\* total after lines 352-354.
TotalOf(us, limit) ==
    IF limit # 0 /\ limit > 0 THEN Min(Len(us), limit) ELSE Len(us)

\* The generator is exhausted: its frame (idx) is gone, and so is the history
\* of what it yielded to the loop that has just ended.
Exhausted ==
    /\ idx' = 0
    /\ row' = NoRow
    /\ yielded' = <<>>
    /\ sources' = <<>>

\* load_workbook (line 185, run when main's loop asks for the first pair) or
\* the row iterator (line 191) raises: the workbook cannot be read, or cannot
\* be read further.
WorkbookUnreadable ==
    /\ pc = "extract"
    /\ idx <= MaxRows
    /\ Fatal([type |-> "Exception",
              msg |-> <<IF idx = 0 THEN "load_workbook" ELSE "iter_rows">>])
    /\ Exhausted
    /\ UNCHANGED <<cfgVars, seen, users, total, batchVars, k, ok, fail,
                   first_err, requestVars, result, callVars>>

\* The rows are exhausted and nothing is left to process (lines 356-358).
NothingToProcess ==
    /\ pc = "extract"
    /\ total' = TotalOf(users, args.limit)
    /\ total' = 0
    /\ events' = Append(events, [ev |-> "print", text |-> "No user rows found to process."])
    /\ exit_code' = 0
    /\ pc' = "exit"
    /\ Exhausted
    /\ UNCHANGED <<cfgVars, seen, users, batchVars, k, ok, fail, first_err,
                   requestVars, result, callVars>>

\* The rows are exhausted and --dry is on (lines 360-373).
DryRun ==
    /\ pc = "extract"
    /\ total' = TotalOf(users, args.limit)
    /\ total' # 0
    /\ args.dry
    /\ events' = events \o
         << [ev |-> "print", text |-> "Preparing to upload"],
            [ev |-> "print", text |-> "Using columns"],
            [ev |-> "print", text |-> "Dry-run. First 10 rows:"],
            [ev |-> "preview", rows |-> Slice(users, 0, Min(10, total'))],
            [ev |-> "print", text |-> "Pass --dry=false or omit --dry to execute."] >>
    /\ exit_code' = 0
    /\ pc' = "exit"
    /\ Exhausted
    /\ UNCHANGED <<cfgVars, seen, users, batchVars, k, ok, fail, first_err,
                   requestVars, result, callVars>>

\* Mutant: the upload begins whether or not --dry is on.
StartUpload_IgnoreDry ==
    /\ pc = "extract"
    /\ total' = TotalOf(users, args.limit)
    /\ total' # 0
    /\ events' = events \o
         << [ev |-> "print", text |-> "Preparing to upload"],
            [ev |-> "print", text |-> "Using columns"] >>
    /\ created' = 0
    /\ pc' = "batch"
    /\ Exhausted
    /\ UNCHANGED <<cfgVars, seen, users, b, batch_users, k, ok, fail, first_err,
                   requestVars, result, callVars, exit_code>>

\* Mutant: the upload begins even when there is no record.
StartUpload_EmptyToo ==
    /\ pc = "extract"
    /\ total' = TotalOf(users, args.limit)
    /\ ~args.dry
    /\ events' = events \o
         << [ev |-> "print", text |-> "Preparing to upload"],
            [ev |-> "print", text |-> "Using columns"] >>
    /\ created' = 0
    /\ pc' = "batch"
    /\ Exhausted
    /\ UNCHANGED <<cfgVars, seen, users, b, batch_users, k, ok, fail, first_err,
                   requestVars, result, callVars, exit_code>>

\* The rows are exhausted and the upload begins (lines 360-375).
StartUpload ==
    /\ pc = "extract"
    /\ total' = TotalOf(users, args.limit)
    /\ total' # 0
    /\ ~args.dry
    /\ events' = events \o
         << [ev |-> "print", text |-> "Preparing to upload"],
            [ev |-> "print", text |-> "Using columns"] >>
    /\ created' = 0
    /\ pc' = "batch"
    /\ Exhausted
    /\ UNCHANGED <<cfgVars, seen, users, b, batch_users, k, ok, fail, first_err,
                   requestVars, result, callVars, exit_code>>

\* ------------------------------------------------------------ chunked
\* for i in range(0, len(lst), n): yield lst[i : i + n], from offset i on.
RECURSIVE chunkedFrom(_, _, _)
chunkedFrom(lst, n, i) ==
    IF i >= Len(lst)
    THEN <<>>
    ELSE <<Slice(lst, i, i + n)>> \o chunkedFrom(lst, n, i + n)

\* Mutant: each slice runs one element too far.
RECURSIVE chunkedOverlapFrom(_, _, _)
chunkedOverlapFrom(lst, n, i) ==
    IF i >= Len(lst)
    THEN <<>>
    ELSE <<Slice(lst, i, i + n + 1)>> \o chunkedOverlapFrom(lst, n, i + n)

chunked_Overlap(lst, n) == chunkedOverlapFrom(lst, n, 0)

chunked(lst, n) == chunkedFrom(lst, n, 0)

\* The batches main iterates over (line 378).
Batches == chunked(Slice(users, 0, total), Max(1, args.batch))

\* ------------------------------------------- monday_request_with_retry
\* Mutant: the presence of the errors key alone makes the attempt fail.
AttemptError_KeyOnly(o) ==
    IF o.kind = "raise"
    THEN [type |-> "ConnectionError", msg |-> <<>>]
    ELSE IF o.status_code # 200
    THEN [type |-> "RuntimeError", msg |-> <<"HTTP", ToString(o.status_code)>>]
    ELSE IF "errors" \in DOMAIN o.json
    THEN [type |-> "RuntimeError", msg |-> <<"Monday GraphQL error", "error">>]
    ELSE NoError

\* The exception one attempt raises inside the try block (lines 94-111), or
\* NoError when the attempt reaches "return payload".
AttemptError(o) ==
    IF o.kind = "raise"
    THEN [type |-> "ConnectionError", msg |-> <<>>]
    ELSE IF o.status_code # 200
    THEN [type |-> "RuntimeError", msg |-> <<"HTTP", ToString(o.status_code)>>]
    ELSE IF "errors" \in DOMAIN o.json /\ o.json.errors # <<>>
    THEN [type |-> "RuntimeError",
          msg |-> <<"Monday GraphQL error",
                    IF "message" \in DOMAIN o.json.errors[1]
                    THEN o.json.errors[1].message
                    ELSE "Unknown Monday error">>]
    ELSE NoError

\* Line 126: the failure raised when the loop ends without a return.  "call"
\* identifies the exception object by the create_user_item call that raised it.
RequestFailed(cause, call) ==
    [type |-> "RuntimeError", msg |-> <<"Request failed after retries">>,
     cause |-> cause, call |-> call]

\* Mutant: the backoff is not capped by max_delay_ms.
Backoff_NoCap(n) == retry_cfg.min_delay_ms * Pow2(n)

\* Lines 122-123.
Backoff(n) ==
    Min(retry_cfg.min_delay_ms * Pow2(n), retry_cfg.max_delay_ms)

\* The values random.randint(0, max(0, jitter_ms)) can give (line 69).
JitterChoices(jitter_ms) == 0..Max(0, jitter_ms)

\* The kinds of the entries of a request's log, in order.
Shape(log) ==
    [i \in 1..Len(log) |->
        IF log[i].ev = "sleep" THEN "sleep"
        ELSE IF log[i].failed THEN "post_failed" ELSE "post_ok"]

\* Mutant: the loop allows one attempt more.
LastAttempt_OneMore(n) == n > retry_cfg.retries

\* Mutant: the loop allows two attempts more.
LastAttempt_TwoMore(n) == n >= retry_cfg.retries + 2

\* Mutant: the loop gives up one attempt early.
LastAttempt_OneLess(n) == n + 1 >= retry_cfg.retries

\* Line 117: the attempt that has just failed was the last one allowed.
LastAttempt(n) == n >= retry_cfg.retries

\* The locals of monday_request_with_retry are gone once it has returned or
\* raised.
RequestOver ==
    /\ attempt' = 0
    /\ last_err' = NoError
    /\ resp' = NoResponse
    /\ reqLog' = <<>>

\* ------------------------------------------------ main, lines 378-412
\* Mutant: a call that returned is not counted.
Returned_NotCounted(payload, o, log) ==
    /\ result' = [kind |-> "returned", payload |-> payload, resp |-> o,
                  attempt |-> attempt, trace |-> Shape(log)]
    /\ outcomes' = Append(outcomes, "ok")
    /\ k' = k + 1
    /\ pc' = "record"
    /\ UNCHANGED <<ok, fail, first_err>>

\* create_user_item returned: the try block of lines 384-395 ends.
Returned(payload, o, log) ==
    /\ result' = [kind |-> "returned", payload |-> payload, resp |-> o,
                  attempt |-> attempt, trace |-> Shape(log)]
    /\ ok' = ok + 1
    /\ outcomes' = Append(outcomes, "ok")
    /\ k' = k + 1
    /\ pc' = "record"
    /\ UNCHANGED <<fail, first_err>>

\* Mutant: a failure ends the batch, as if the try enclosed the inner loop.
Raised_AbortBatch(e, o, log) ==
    /\ result' = [kind |-> "raised", error |-> e, resp |-> o,
                  attempt |-> attempt, trace |-> Shape(log)]
    /\ fail' = fail + 1
    /\ first_err' = IF first_err = NoError THEN e ELSE first_err
    /\ outcomes' = Append(outcomes, "failed")
    /\ k' = Len(batch_users)
    /\ pc' = "record"
    /\ UNCHANGED ok

\* create_user_item raised: the except block of lines 396-399.
Raised(e, o, log) ==
    /\ result' = [kind |-> "raised", error |-> e, resp |-> o,
                  attempt |-> attempt, trace |-> Shape(log)]
    /\ fail' = fail + 1
    /\ first_err' = IF first_err = NoError THEN e ELSE first_err
    /\ outcomes' = Append(outcomes, "failed")
    /\ k' = k + 1
    /\ pc' = "record"
    /\ UNCHANGED ok

\* Mutant: first_err is set to None once, before the loop over the batches.
BatchStart_NoReset ==
    /\ pc = "batch"
    /\ b < Len(Batches)
    /\ batch_users' = Batches[b + 1]
    /\ b' = b + 1
    /\ ok' = 0
    /\ fail' = 0
    /\ k' = 0
    /\ pc' = "record"
    /\ UNCHANGED <<cfgVars, extractVars, total, created, first_err, requestVars,
                   result, callVars, events, exit_code>>

\* The next batch is taken from chunked(...) (lines 378-381).
BatchStart ==
    /\ pc = "batch"
    /\ b < Len(Batches)
    /\ batch_users' = Batches[b + 1]
    /\ b' = b + 1
    /\ ok' = 0
    /\ fail' = 0
    /\ first_err' = NoError
    /\ k' = 0
    /\ pc' = "record"
    /\ UNCHANGED <<cfgVars, extractVars, total, created, requestVars, result,
                   callVars, events, exit_code>>

\* ---------------------------------------------------- create_user_item
\* Python's truth value of an Optional[str].
Truthy(v) == v # None /\ v # <<>>

\* d[key] = v on a dict held as its <<key, value>> items in insertion order:
\* an existing key keeps its place and takes the new value.
SetItem(d, key, v) ==
    IF \E i \in DOMAIN d : d[i][1] = key
    THEN [i \in DOMAIN d |-> IF d[i][1] = key THEN <<key, v>> ELSE d[i]]
    ELSE Append(d, <<key, v>>)

\* json.dumps of a dict of strings: the text of a JSON object with the items
\* in order (the characters of the text are not modelled).
json_dumps(d) == [object |-> d]

\* Mutant: the name, when sent, replaces the id in columnValues.
values_NameOnly(user_id, user_name) ==
    IF user_name_col # "" /\ Truthy(user_name)
    THEN SetItem(EmptyDict, user_name_col, str(user_name))
    ELSE SetItem(EmptyDict, user_id_col, str(user_id))

\* Lines 226-228.
values(user_id, user_name) ==
    IF user_name_col # "" /\ Truthy(user_name)
    THEN SetItem(SetItem(EmptyDict, user_id_col, str(user_id)),
                 user_name_col, str(user_name))
    ELSE SetItem(EmptyDict, user_id_col, str(user_id))

\* Line 232.
itemName(user_id, user_name) ==
    LET stripped == IF Truthy(user_name) THEN strip(user_name) ELSE <<>>
    IN  IF stripped # <<>> THEN stripped ELSE str(user_id)

\* Lines 230-235 (groupId, which main passes through from --group, is left
\* out).
CreateItemVariables(user_id, user_name) ==
    [boardId |-> board_id,
     itemName |-> itemName(user_id, user_name),
     columnValues |-> json_dumps(values(user_id, user_name))]

\* The range the retry loop iterates over (line 92) is empty when
\* retries + 1 <= 0: the loop body never runs and line 126 raises.
CreateUserItem ==
    /\ pc = "record"
    /\ k < Len(batch_users)
    /\ attempted' = Append(attempted, batch_users[k + 1])
    /\ variables' = CreateItemVariables(batch_users[k + 1][1], batch_users[k + 1][2])
    /\ IF retry_cfg.retries + 1 <= 0
       THEN /\ Raised(RequestFailed(NoError, Len(attempted) + 1), NoResponse, <<>>)
            /\ UNCHANGED requestVars
       ELSE /\ pc' = "post"
            /\ result' = NoResult
            /\ UNCHANGED <<requestVars, ok, fail, first_err, k, outcomes>>
    /\ UNCHANGED <<cfgVars, extractVars, total, batchVars, events, exit_code>>

\* One pass through the try block: requests.post and the checks of its
\* response (lines 93-118).
Post ==
    /\ pc = "post"
    /\ \E o \in TransportOutcomes :
         /\ calls' = calls + 1
         /\ IF AttemptError(o) = NoError
            THEN /\ Returned(o.json, o,
                             Append(reqLog, [ev |-> "post", failed |-> FALSE]))
                 /\ RequestOver
            ELSE IF LastAttempt(attempt)
            THEN /\ Raised(RequestFailed(AttemptError(o), Len(attempted)), o,
                           Append(reqLog, [ev |-> "post", failed |-> TRUE]))
                 /\ RequestOver
            ELSE /\ resp' = o
                 /\ reqLog' = Append(reqLog, [ev |-> "post", failed |-> TRUE])
                 /\ last_err' = AttemptError(o)
                 /\ pc' = "sleep"
                 /\ UNCHANGED <<attempt, result, ok, fail, first_err, k, outcomes>>
    /\ UNCHANGED <<cfgVars, extractVars, total, batchVars, sleeps, attempted,
                   variables, events, exit_code>>

\* Lines 120-124: the backoff sleep, then the next iteration of the loop.
BackoffSleep ==
    /\ pc = "sleep"
    /\ \E j \in JitterChoices(retry_cfg.jitter_ms) :
         reqLog' = Append(reqLog, [ev |-> "sleep", base_ms |-> Backoff(attempt),
                                   j |-> j, ms |-> Backoff(attempt) + j])
    /\ sleeps' = sleeps + 1
    /\ attempt' = attempt + 1
    /\ pc' = "post"
    /\ UNCHANGED <<cfgVars, extractVars, total, batchVars, k, ok, fail,
                   first_err, last_err, resp, result, calls, callVars, events,
                   exit_code>>

\* Mutant: the progress is written before the pacing sleep.
BatchTail_ProgressFirst(created1) ==
    (IF fail > 0 /\ first_err # NoError
     THEN <<[ev |-> "report", error |-> first_err]>>
     ELSE <<>>)
    \o <<[ev |-> "progress", created |-> created1, total |-> total]>>
    \o (IF args.delayMs # 0
        THEN <<[ev |-> "pace", ms |-> args.delayMs]>>
        ELSE <<>>)

\* What main writes and sleeps after the records of a batch (lines 401-409).
BatchTail(created1) ==
    (IF fail > 0 /\ first_err # NoError
     THEN <<[ev |-> "report", error |-> first_err]>>
     ELSE <<>>)
    \o (IF args.delayMs # 0
        THEN <<[ev |-> "pace", ms |-> args.delayMs]>>
        ELSE <<>>)
    \o <<[ev |-> "progress", created |-> created1, total |-> total]>>

\* The records of the batch are exhausted (lines 401-409).
BatchEnd ==
    /\ pc = "record"
    /\ k >= Len(batch_users)
    /\ created' = created + ok
    /\ events' = events \o BatchTail(created + ok)
    /\ sleeps' = IF args.delayMs # 0 THEN sleeps + 1 ELSE sleeps
    /\ pc' = "batch"
    /\ result' = NoResult
    /\ UNCHANGED <<cfgVars, extractVars, total, b, batch_users, k, ok, fail,
                   first_err, attempt, last_err, resp, reqLog, calls, callVars,
                   exit_code>>

\* The batches are exhausted (lines 411-412).
Finish ==
    /\ pc = "batch"
    /\ b >= Len(Batches)
    /\ events' = Append(events, [ev |-> "print", text |-> "Done."])
    /\ exit_code' = 0
    /\ pc' = "exit"
    /\ UNCHANGED <<cfgVars, extractVars, total, batchVars, k, ok, fail,
                   first_err, requestVars, result, callVars>>

Next ==
    \/ ValidateFile
    \/ DecryptWorkbook
    \/ RequireEnv
    \/ CheckConfig
    \/ ReadRow
    \/ WorkbookUnreadable
    \/ NothingToProcess
    \/ DryRun
    \/ StartUpload
    \/ BatchStart
    \/ CreateUserItem
    \/ Post
    \/ BackoffSleep
    \/ BatchEnd
    \/ Finish

Spec == Init /\ [][Next]_vars

\* The runs with no --limit, a pacing delay, a name column and the delays
\* <<1, 5, 0>>: every row list, batch size, retries value, failure and
\* transport outcome of Spec, for the properties that do not depend on the
\* values left out.
InitFair ==
    /\ Init
    /\ args.limit = 0
    /\ args.delayMs = 1
    /\ user_name_col = "name_col"
    /\ retry_cfg.jitter_ms = 0

\* main is one sequential process: requests.post returns or raises within
\* its timeout (line 98), every time.sleep ends and every loop body ends, so
\* a step that can be taken is taken.
FairSpec == InitFair /\ [][Next]_vars /\ WF_vars(Next)

\* =================================================================
\* Properties.  The retry policy explored has retries >= -1 and delays
\* >= 0; R below is retry_cfg.retries.
\* =================================================================
R == retry_cfg.retries

InRequest == pc \in {"post", "sleep"}

\* main has been left by an exception.
Failed == \E i \in DOMAIN events : events[i].ev = "failed"

\* main's loop over the generator has ended normally.
Extracted ==
    /\ pc \in {"batch", "record", "post", "sleep", "exit"}
    /\ ~Failed

\* Number of transport calls recorded in a trace of entry kinds.
PostsIn(trace) ==
    Cardinality({i \in DOMAIN trace : trace[i] \in {"post_failed", "post_ok"}})

SleepsIn(trace) == Cardinality({i \in DOMAIN trace : trace[i] = "sleep"})

\* n failed transport calls, each followed by one sleep, then a last
\* transport call of kind "last" and nothing after it.
TraceWith(n, last) ==
    [i \in 1..(2 * n + 1) |->
        IF i = 2 * n + 1 THEN last
        ELSE IF i % 2 = 1 THEN "post_failed" ELSE "sleep"]

\* C1: with retries = R >= 0 a call of monday_request_with_retry never makes
\* more than R+1 transport calls, and when attempt k is the first to succeed,
\* the call returns the payload of that very response after exactly k+1
\* transport calls (k failed ones, each followed by one sleep, then the
\* successful one) and is over: control is back in main with nothing after
\* the successful call.
C1_ReturnsAtFirstSuccess ==
    R >= 0 =>
        /\ InRequest => PostsIn(Shape(reqLog)) <= R + 1
        /\ result.kind # "none" => PostsIn(result.trace) <= R + 1
        /\ result.kind = "returned" =>
              /\ result.attempt \in 0..R
              /\ result.trace = TraceWith(result.attempt, "post_ok")
              /\ PostsIn(result.trace) = result.attempt + 1
              /\ result.resp.kind = "response"
              /\ result.payload = result.resp.json
              /\ pc = "record"
              /\ reqLog = <<>>

C1_Witness ==
    /\ result.kind = "returned"
    /\ R = 2
    /\ result.attempt = 2
    /\ PostsIn(result.trace) = 3

\* C2: with retries = R >= 0, a call whose every attempt fails raises after
\* exactly R+1 transport calls and R sleeps, the sleeps alternating with the
\* calls and none following the last call; with R = 0 that is one call and no
\* sleep.
C2_FailsAfterAllAttempts ==
    (R >= 0 /\ result.kind = "raised") =>
        /\ result.trace = TraceWith(R, "post_failed")
        /\ PostsIn(result.trace) = R + 1
        /\ SleepsIn(result.trace) = R
        /\ result.trace[Len(result.trace)] = "post_failed"
        /\ result.error.msg = <<"Request failed after retries">>
        /\ result.error.cause = AttemptError(result.resp)
        /\ R = 0 => result.trace = <<"post_failed">>

C2_Witness ==
    /\ result.kind = "raised"
    /\ R = 2
    /\ result.trace = <<"post_failed", "sleep", "post_failed", "sleep", "post_failed">>

\* The index (from 0) of the failed attempt the sleep at position i follows.
AttemptBefore(log, i) ==
    Cardinality({j \in 1..i : log[j].ev = "post"}) - 1

\* min(min_delay_ms * 2^n, max_delay_ms), as the retry policy states it.
CappedDelay(n) ==
    IF retry_cfg.min_delay_ms * (2 ^ n) <= retry_cfg.max_delay_ms
    THEN retry_cfg.min_delay_ms * (2 ^ n)
    ELSE retry_cfg.max_delay_ms

\* C3: the sleep after failed attempt k (k < R) lasts
\* min(min_delay_ms * 2^k, max_delay_ms) + j with 0 <= j <= jitter_ms, so it
\* never exceeds max_delay_ms + jitter_ms, and the backoff part never
\* decreases from one sleep to the next.
C3_BackoffDuration ==
    \A i \in DOMAIN reqLog :
        reqLog[i].ev = "sleep" =>
            LET n == AttemptBefore(reqLog, i) IN
            /\ n >= 0
            /\ n < R
            /\ reqLog[i].base_ms = CappedDelay(n)
            /\ reqLog[i].j \in 0..retry_cfg.jitter_ms
            /\ reqLog[i].ms = CappedDelay(n) + reqLog[i].j
            /\ reqLog[i].ms <= retry_cfg.max_delay_ms + retry_cfg.jitter_ms
            /\ \A h \in 1..(i - 1) :
                  reqLog[h].ev = "sleep" => reqLog[h].base_ms <= reqLog[i].base_ms

C3_Witness ==
    /\ Len(reqLog) >= 4
    /\ reqLog[2].ev = "sleep"
    /\ reqLog[4].ev = "sleep"
    /\ reqLog[2].base_ms < reqLog[4].base_ms
    /\ reqLog[4].base_ms = retry_cfg.max_delay_ms
    /\ retry_cfg.min_delay_ms * 2 > retry_cfg.max_delay_ms
    /\ reqLog[4].j = 1

\* An attempt fails: the transport call raised, or the status is not 200, or
\* the payload has a non-empty errors list.
FailedOutcome(o) ==
    \/ o.kind = "raise"
    \/ o.kind = "response" /\ o.status_code # 200
    \/ /\ o.kind = "response"
       /\ o.status_code = 200
       /\ "errors" \in DOMAIN o.json
       /\ Len(o.json.errors) > 0

\* An attempt succeeds: status 200 and no errors key or an empty errors list.
SuccessOutcome(o) ==
    /\ o.kind = "response"
    /\ o.status_code = 200
    /\ ("errors" \notin DOMAIN o.json \/ o.json.errors = <<>>)

\* C4: an attempt is retried (budget remaining) or ends the call with the
\* failure (budget spent) exactly when the transport call raised, the status
\* is not 200 or the errors list is non-empty, whichever of these it is; an
\* attempt with status 200 and no or empty errors ends the call with its
\* payload as the result.
C4_FailureKinds ==
    /\ pc = "sleep" => (FailedOutcome(resp) /\ attempt < R)
    /\ result.kind = "returned" =>
          (SuccessOutcome(result.resp) /\ result.payload = result.resp.json)
    /\ (result.kind = "raised" /\ R >= 0) =>
          (FailedOutcome(result.resp) /\ result.attempt = R)

C4_Witness ==
    /\ pc = "sleep"
    /\ resp.kind = "response"
    /\ resp.status_code = 200
    /\ resp.json.errors # <<>>

\* C5: in a non-dry run create_user_item is called for the records of the
\* deduplicated, truncated list in list order, each once, whatever calls
\* failed before, and when main returns every record has been passed to it
\* and the exit code is 0.
C5_EveryRecordAttempted ==
    (~args.dry /\ Extracted) =>
        /\ Len(attempted) <= total
        /\ attempted = SubSeq(users, 1, Len(attempted))
        /\ pc = "exit" => (attempted = SubSeq(users, 1, total) /\ exit_code = 0)

C5_Witness ==
    /\ ~args.dry
    /\ pc = "exit"
    /\ Len(attempted) = 3
    /\ args.batch = 2
    /\ created = 1
    /\ events[3].ev = "report"

\* The position of the first pair of seq with this id.
FirstIdx(seq, id) ==
    CHOOSE i \in DOMAIN seq :
        seq[i][1] = id /\ \A j \in 1..(i - 1) : seq[j][1] # id

\* C6: while and after main's dedupe loop runs, users holds every id yielded
\* so far exactly once, with the name of the id's first occurrence, the ids in
\* the order of their first occurrences, and is never longer than the list of
\* yielded pairs.  (Every state of the loop is one the loop can end in.)
C6_DedupeFirstOccurrence ==
    pc = "extract" =>
        /\ \A i, j \in DOMAIN users : i # j => users[i][1] # users[j][1]
        /\ {users[i][1] : i \in DOMAIN users} = {yielded[i][1] : i \in DOMAIN yielded}
        /\ \A i \in DOMAIN users : users[i] = yielded[FirstIdx(yielded, users[i][1])]
        /\ \A i, j \in DOMAIN users :
              i < j => FirstIdx(yielded, users[i][1]) < FirstIdx(yielded, users[j][1])
        /\ Len(users) <= Len(yielded)
        /\ seen = {users[i][1] : i \in DOMAIN users}

C6_Witness ==
    /\ pc = "extract"
    /\ Len(yielded) = 3
    /\ Len(users) = 2
    /\ yielded[1][1] = yielded[3][1]
    /\ yielded[1][2] # yielded[3][2]
    /\ users[1] = yielded[1]

\* min(L, U) for limit L > 0, U for limit 0, U the deduplicated count.
ExpectedCount ==
    IF args.limit > 0
    THEN (IF args.limit <= Len(users) THEN args.limit ELSE Len(users))
    ELSE Len(users)

\* C7: total is min(L, U) for limit L > 0 and U for limit 0, and the records
\* processed by a run that uploads are exactly the first total records of the
\* deduplicated list.
C7_LimitTruncates ==
    Extracted =>
        /\ total = ExpectedCount
        /\ Len(attempted) <= ExpectedCount
        /\ (pc = "exit" /\ ~args.dry) => attempted = SubSeq(users, 1, ExpectedCount)

C7_Witness ==
    /\ pc = "exit"
    /\ ~args.dry
    /\ args.limit = 2
    /\ Len(users) = 3
    /\ Len(attempted) = 2

RECURSIVE Flatten(_)
Flatten(ss) == IF ss = <<>> THEN <<>> ELSE Head(ss) \o Flatten(Tail(ss))

\* C8: N >= 1 records and batch size B >= 1 give ceil(N/B) batches, all but
\* the last of B records, the last of 1..B records, whose concatenation is
\* the N records in order; main takes them one after the other.
C8_BatchPartition ==
    (~args.dry /\ Extracted /\ total >= 1 /\ args.batch >= 1) =>
        LET N == total
            B == args.batch
            n == (N + B - 1) \div B
            bs == Batches
        IN  /\ Len(bs) = n
            /\ \A i \in 1..(n - 1) : Len(bs[i]) = B
            /\ Len(bs[n]) \in 1..B
            /\ Flatten(bs) = SubSeq(users, 1, N)
            /\ b <= n
            /\ pc \in {"record", "post", "sleep"} => batch_users = bs[b]
            /\ pc = "exit" => b = n

C8_Witness ==
    /\ ~args.dry
    /\ pc = "exit"
    /\ total = 3
    /\ args.batch = 2
    /\ b = 2
    /\ Len(batch_users) = 1

\* C9: a dry run makes no transport call, never calls create_user_item and,
\* once extraction is over, has returned exit code 0, whatever the number of
\* records, the limit and the batch size.
C9_DryRunNoTransport ==
    args.dry =>
        /\ calls = 0
        /\ attempted = <<>>
        /\ result = NoResult
        /\ pc \notin {"batch", "record", "post", "sleep"}
        /\ Extracted => exit_code = 0

C9_Witness ==
    /\ args.dry
    /\ pc = "exit"
    /\ total = 3
    /\ exit_code = 0

\* C10: when the deduplicated, truncated list is empty main says that there
\* is nothing to process and returns 0; no transport call and no sleep has
\* been made.
C10_EmptyRun ==
    (Extracted /\ total = 0) =>
        /\ pc = "exit"
        /\ exit_code = 0
        /\ events = <<[ev |-> "print", text |-> "No user rows found to process."]>>
        /\ calls = 0
        /\ sleeps = 0
        /\ attempted = <<>>

C10_Witness ==
    /\ pc = "exit"
    /\ total = 0
    /\ users = <<>>
    /\ ~args.dry
    /\ args.delayMs > 0

\* main is at one of its steps before the loop over the generator.
Starting == pc \in {"validate", "decrypt", "require_env", "config"}

\* C11: a run that fails on the file, the decryption, the API key, the board
\* id, the id column key or the reading of the workbook (at load_workbook or
\* at any row) has made no transport call, no sleep and no create_user_item
\* call and exits with code 1; and the first create_user_item call comes only
\* after all these checks have passed and the generator is exhausted.
C11_FatalBeforeUpload ==
    /\ Failed =>
          /\ pc = "exit"
          /\ exit_code = 1
          /\ calls = 0
          /\ sleeps = 0
          /\ attempted = <<>>
          /\ variables = NoVariables
          /\ Len(events) = 1
    /\ (Starting \/ pc = "extract") => (calls = 0 /\ attempted = <<>>)
    /\ (board_id = "" \/ user_id_col = "") =>
          (Starting \/ (pc = "exit" /\ Failed))
    /\ (attempted # <<>> \/ calls > 0 \/ pc \in {"batch", "record", "post", "sleep"}) =>
          /\ Extracted
          /\ board_id # ""
          /\ user_id_col # ""
          /\ idx = 0
          /\ row = NoRow

C11_Witness ==
    /\ Failed
    /\ ~args.dry
    /\ events[1].error.msg = <<"iter_rows">>
    /\ Len(users) = 2
    /\ exit_code = 1

\* The cell of column i (from 0) of a worksheet row has no text: the row is
\* too short to have it, the cell is blank (no value), or its text is empty
\* after trimming.
ColumnEmpty(r, i) ==
    \/ Len(r) <= i
    \/ r[i + 1] = None
    \/ strip(r[i + 1]) = <<>>

\* C12: no pair is yielded for a row whose id column is empty after trimming
\* (short rows and blank cells included), and no yielded id is the empty
\* string.
C12_NoEmptyId ==
    \A i \in DOMAIN yielded :
        /\ ~ColumnEmpty(sources[i], 0)
        /\ yielded[i][1] # <<>>

\* C13 as stated: every yielded pair comes from a row of at least four
\* columns whose department cell equals the required value exactly.
C13_DepartmentExact ==
    \A i \in DOMAIN yielded :
        /\ Len(sources[i]) >= 4
        /\ sources[i][4] = required_department

\* C13, amended: every yielded pair comes from a row of at least four columns
\* whose department cell has a value that equals the required value once its
\* leading and trailing blanks are removed, whatever the id and the name are;
\* a row with fewer than four columns is never yielded.
C13_DepartmentTrimmed ==
    \A i \in DOMAIN yielded :
        /\ Len(sources[i]) >= 4
        /\ sources[i][4] # None
        /\ strip(sources[i][4]) = required_department

C13_Witness ==
    /\ Len(yielded) = 2
    /\ sources[1][4] # required_department
    /\ sources[2][4] = required_department
    /\ row # NoRow
    /\ Len(row) < 4

\* C14: the name of every yielded pair is None when the row's name column is
\* missing, blank or empty after trimming, and the trimmed text of the name
\* cell otherwise; reading a short row does not end the run.
C14_NameAbsentOrTrimmed ==
    /\ \A i \in DOMAIN yielded :
          yielded[i][2] = IF ColumnEmpty(sources[i], 1)
                          THEN None
                          ELSE strip(sources[i][2])
    /\ (row # NoRow /\ Len(row) < 4) => (pc = "extract" /\ ~Failed)

\* The keys of a JSON object, and the value it holds under one of them.
Keys(d) == {d[i][1] : i \in DOMAIN d}

Lookup(d, key) == LET i == CHOOSE j \in DOMAIN d : d[j][1] = key IN d[i][2]

\* The record of the latest create_user_item call.
LastRecord == attempted[Len(attempted)]

\* A name is present and not empty.
NamePresent(name) == name # None /\ name # <<>>

\* The name to show: the trimmed name when there is one, else the id.
ExpectedItemName(id, name) ==
    IF name # None /\ strip(name) # <<>> THEN strip(name) ELSE id

\* What create_user_item hands back to main is what the request client
\* returned or raised.
ResultPassedOn ==
    /\ result.kind = "returned" => result.payload = result.resp.json
    /\ result.kind = "raised" =>
          /\ result.error.msg = <<"Request failed after retries">>
          /\ result.error.call = Len(attempted)

\* C15 as stated: for every record and column configuration the id is sent
\* under the id column key, the name under the name column key exactly when
\* a name column key and a non-empty name are present, and nothing else.
C15_ColumnValuesAsStated ==
    attempted # <<>> =>
        LET id == LastRecord[1]
            name == LastRecord[2]
            d == variables.columnValues.object
            withName == user_name_col # "" /\ NamePresent(name)
        IN  /\ variables.itemName = ExpectedItemName(id, name)
            /\ Keys(d) = {user_id_col} \cup (IF withName THEN {user_name_col} ELSE {})
            /\ Lookup(d, user_id_col) = id
            /\ withName => Lookup(d, user_name_col) = name
            /\ ResultPassedOn

\* C15, amended: itemName is the trimmed name when a name is present and not
\* empty after trimming, else the id.  The keys of columnValues are the id
\* column key, and the name column key exactly when a name column key and a
\* non-empty name are present; no key occurs twice.  The name, when sent, is
\* the value under the name column key; the id is the value under the id
\* column key unless the name is sent under that same key, in which case the
\* name has replaced the id.  The result or the failure of the request client
\* is what main gets.
C15_CreateItemVariables ==
    attempted # <<>> =>
        LET id == LastRecord[1]
            name == LastRecord[2]
            d == variables.columnValues.object
            withName == user_name_col # "" /\ NamePresent(name)
        IN  /\ variables.boardId = board_id
            /\ variables.itemName = ExpectedItemName(id, name)
            /\ Keys(d) = {user_id_col} \cup (IF withName THEN {user_name_col} ELSE {})
            /\ Cardinality(Keys(d)) = Len(d)
            /\ withName => Lookup(d, user_name_col) = name
            /\ ~(withName /\ user_name_col = user_id_col) => Lookup(d, user_id_col) = id
            /\ ResultPassedOn

C15_Witness ==
    /\ result.kind = "returned"
    /\ user_name_col = "name_col"
    /\ LastRecord[2] # None
    /\ variables.itemName = LastRecord[2]
    /\ variables.columnValues.object =
          << <<user_id_col, LastRecord[1]>>, <<user_name_col, LastRecord[2]>> >>

\* ---- the batches as the events and the outcomes show them
IsProgress(e) == e.ev = "progress"

IsPace(e) == e.ev = "pace"

\* The progress lines written so far, one per batch that has ended.
Progress == SelectSeq(events, IsProgress)

\* main is inside a batch: between taking it and ending it.
InBatch == pc \in {"record", "post", "sleep"}

\* An upload is under way or over.
Uploading == ~args.dry /\ Extracted /\ total > 0

\* Number of batches that have ended.
BatchesEnded == IF InBatch THEN b - 1 ELSE b

\* The positions in the list of records of the records of batch j.
RecordsOf(j) == ((j - 1) * args.batch + 1)..Min(j * args.batch, total)

\* Records among the first n whose create_user_item call returned / raised.
Succeeded(n) == Cardinality({i \in 1..n : outcomes[i] = "ok"})

FailedIn(S) == {i \in S : i <= Len(outcomes) /\ outcomes[i] = "failed"}

Earliest(S) == CHOOSE i \in S : \A j \in S : i <= j

\* The batch an event belongs to: one more than the progress lines before it.
BatchOfEvent(i) == Cardinality({h \in 1..(i - 1) : events[h].ev = "progress"}) + 1

ReportsOf(j) == {i \in DOMAIN events : events[i].ev = "report" /\ BatchOfEvent(i) = j}

\* C16: when a batch ends, created is the number of records processed so
\* far whose creation succeeded, and that is what the progress line of the
\* batch shows over total; the values shown never decrease and never exceed
\* total; when the run ends created plus the number of failed records is
\* total, and created = total when nothing failed.
C16_CreatedCounter ==
    Uploading =>
        /\ Len(Progress) = BatchesEnded
        /\ created <= total
        /\ ~InBatch =>
              /\ Len(outcomes) = Len(attempted)
              /\ created = Succeeded(Len(outcomes))
        /\ InBatch => created = Succeeded(Min((b - 1) * args.batch, total))
        /\ \A j \in DOMAIN Progress :
              /\ Progress[j].total = total
              /\ Progress[j].created = Succeeded(Min(j * args.batch, total))
              /\ Progress[j].created <= total
              /\ \A h \in 1..(j - 1) : Progress[h].created <= Progress[j].created
        /\ pc = "exit" =>
              /\ Len(outcomes) = total
              /\ created + Cardinality(FailedIn(1..total)) = total
              /\ FailedIn(1..total) = {} =>
                    Progress[Len(Progress)] =
                        [ev |-> "progress", created |-> total, total |-> total]

C16_Witness ==
    /\ Uploading
    /\ pc = "exit"
    /\ args.batch = 2
    /\ users = << <<<<"A">>, <<"n">>>>, <<<<"B">>, <<"N", "o", "n", "e">>>> >>
    /\ b = 1
    /\ Progress = <<[ev |-> "progress", created |-> 2, total |-> 2]>>

\* C17: a batch that has ended has one failure report if one of its records
\* failed and none otherwise; the report carries the exception of the
\* earliest failed record of the batch and comes after all records of the
\* batch were attempted; inside a batch first_err is None until a record of
\* that batch fails and is then the exception of the earliest failed record
\* of that batch.
C17_FailureReport ==
    Uploading =>
        /\ \A i \in DOMAIN events :
              events[i].ev = "report" =>
                  /\ BatchOfEvent(i) <= BatchesEnded
                  /\ Len(attempted) >= Min(BatchOfEvent(i) * args.batch, total)
        /\ \A j \in 1..BatchesEnded :
              IF FailedIn(RecordsOf(j)) = {}
              THEN ReportsOf(j) = {}
              ELSE /\ Cardinality(ReportsOf(j)) = 1
                   /\ \A i \in ReportsOf(j) :
                         /\ events[i].error.msg = <<"Request failed after retries">>
                         /\ events[i].error.call = Earliest(FailedIn(RecordsOf(j)))
        /\ InBatch =>
              /\ fail = Cardinality(FailedIn(RecordsOf(b)))
              /\ IF FailedIn(RecordsOf(b)) = {}
                 THEN first_err = NoError
                 ELSE /\ first_err # NoError
                      /\ first_err.call = Earliest(FailedIn(RecordsOf(b)))

C17_Witness ==
    /\ Uploading
    /\ pc = "exit"
    /\ args.batch = 2
    /\ outcomes = <<"ok", "failed", "failed">>
    /\ Cardinality(ReportsOf(1)) = 1
    /\ Cardinality(ReportsOf(2)) = 1
    /\ \A i \in ReportsOf(1) : events[i].error.call = 2
    /\ \A i \in ReportsOf(2) : events[i].error.call = 3

\* C18: with a positive inter-batch delay every batch that has ended, the
\* last one included, has had one pacing sleep of that delay, so that the
\* pacing sleeps are as many as the batches ended; the progress line of a
\* batch comes right after its pacing sleep; while main is inside a batch
\* (between two records, in a transport call or in a backoff sleep) the
\* pacing sleeps and progress lines are those of the batches before it.
C18_PacingSleep ==
    (Uploading /\ args.delayMs > 0) =>
        /\ Len(SelectSeq(events, IsPace)) = BatchesEnded
        /\ Len(Progress) = BatchesEnded
        /\ \A i \in DOMAIN events :
              /\ events[i].ev = "progress" =>
                    (i > 1 /\ events[i - 1] = [ev |-> "pace", ms |-> args.delayMs])
              /\ events[i].ev = "pace" =>
                    (i < Len(events) /\ events[i + 1].ev = "progress")
        /\ pc = "exit" => Len(SelectSeq(events, IsPace)) = Len(Batches)
        /\ InBatch => events[Len(events)].ev \in {"progress", "print"}
        /\ R <= 0 => sleeps = Len(SelectSeq(events, IsPace))

C18_Witness ==
    /\ Uploading
    /\ args.delayMs > 0
    /\ pc = "exit"
    /\ total = 3
    /\ args.batch = 2
    /\ R = 0
    /\ sleeps = 2
    /\ Len(SelectSeq(events, IsPace)) = 2

\* C19: once the rows are extracted, a non-dry run with retries >= 0 never
\* makes more than total * (retries + 1) transport calls and, whatever the
\* transport does, ends: main returns 0.
C19_Terminates ==
    /\ []((~args.dry /\ Extracted /\ R >= 0) => calls <= total * (R + 1))
    /\ (~args.dry /\ Extracted /\ R >= 0) ~>
          (pc = "exit" /\ exit_code = 0 /\ calls <= total * (R + 1))

C19_Witness ==
    /\ ~args.dry
    /\ pc = "exit"
    /\ exit_code = 0
    /\ R = 2
    /\ total = 3
    /\ calls = 9
    /\ outcomes = <<"failed", "failed", "failed">>

\* C20: whatever integer --retries is, a create_user_item call that raised
\* has made at least one transport call, so that the records counted as
\* failed are not more than the transport calls made.
C20_SentBeforeFailed ==
    /\ result.kind = "raised" => PostsIn(result.trace) >= 1
    /\ Cardinality(FailedIn(DOMAIN outcomes)) <= calls

====
